---------------------------- MODULE Spec2Model ----------------------------
(***************************************************************************)
(* A model of the two tutorial notebooks                                   *)
(*   src/notebooks/Introduction to NumPy.ipynb                             *)
(*   src/notebooks/Model Building with PyMC.ipynb                          *)
(* The notebooks are run cell by cell by a kernel; each code cell is a     *)
(* list of statements that read and bind names of the kernel's namespace   *)
(* and call into the array library.  The library calls the notebooks make  *)
(* are modelled by what they compute on the values the notebooks give      *)
(* them; the functions the PyMC notebook defines itself (switchpoint,      *)
(* rate, rate_constraint) are translated statement by statement.           *)
(***************************************************************************)
EXTENDS Integers, Sequences, FiniteSets, TLC

VARIABLES
    pc,       \* kernel: per notebook, index of the next code cell to run
    ns,       \* kernel: per notebook, the names bound in its namespace
    err,      \* kernel: per notebook, the exception of the last cell run
    files,    \* the files of the working directory the notebooks share
    disk,     \* the contents of the files a fragment writes
    stage,    \* position in the fragment a specification runs
    arr,      \* NumPy notebook: the array bound to arr
    raised,   \* the exception of the last statement of the fragment
    norm10,   \* NumPy notebook: the array bound to norm10
    mask,     \* NumPy notebook: the array bound to mask
    args,     \* arguments of the function call under study
    ret       \* its result

kvars == <<pc, ns, err, files, disk>>
fvars == <<stage, arr, raised, norm10, mask, args, ret>>
vars == <<pc, ns, err, files, disk, stage, arr, raised, norm10, mask, args, ret>>

None == "None"

Max(a, b) == IF a >= b THEN a ELSE b

Min(a, b) == IF a <= b THEN a ELSE b

(***************************************************************************)
(* Python values.  A float is kept as the exact fraction num/den (den > 0) *)
(* of its literal; a string as the sequence of its characters.             *)
(***************************************************************************)
PyInt(v) == [t |-> "int", v |-> v]

PyFloat(num, den) == [t |-> "float", num |-> num, den |-> den]

PyStr(chars) == [t |-> "str", chars |-> chars]

Digits == {"0", "1", "2", "3", "4", "5", "6", "7", "8", "9"}

DigitVal(ch) ==
    CASE ch = "0" -> 0 [] ch = "1" -> 1 [] ch = "2" -> 2 [] ch = "3" -> 3
      [] ch = "4" -> 4 [] ch = "5" -> 5 [] ch = "6" -> 6 [] ch = "7" -> 7
      [] ch = "8" -> 8 [] ch = "9" -> 9

\* int(str): an optional sign followed by at least one decimal digit.
Unsigned(chars) ==
    IF Len(chars) > 0 /\ chars[1] \in {"+", "-"} THEN Tail(chars) ELSE chars

IsIntLiteral(chars) ==
    /\ Len(Unsigned(chars)) > 0
    /\ \A i \in 1..Len(Unsigned(chars)) : Unsigned(chars)[i] \in Digits

RECURSIVE DigitsVal(_)
DigitsVal(ds) ==
    IF Len(ds) = 0 THEN 0
    ELSE 10 * DigitsVal(SubSeq(ds, 1, Len(ds) - 1)) + DigitVal(ds[Len(ds)])

ParseInt(chars) ==
    IF chars[1] = "-" THEN 0 - DigitsVal(Unsigned(chars))
    ELSE DigitsVal(Unsigned(chars))

\* C conversion of a float to an integer: truncation toward zero.
Trunc(num, den) ==
    IF num >= 0 THEN num \div den ELSE 0 - ((0 - num) \div den)

(***************************************************************************)
(* Arrays: a dtype fixed at creation, a shape, and the elements in         *)
(* row-major order.  An int64 element is an integer, a float64 element a   *)
(* fraction <<num, den>>, a bool element a Boolean.                        *)
(***************************************************************************)
RECURSIVE Prod(_)
Prod(s) == IF Len(s) = 0 THEN 1 ELSE s[1] * Prod(Tail(s))

NdArray(dtype, shape, data) == [dtype |-> dtype, shape |-> shape, data |-> data]

Size(a) == Len(a.data)

\* np.array([...]) of a list of Python ints
IntArray(list) == NdArray("int64", <<Len(list)>>, list)

\* np.arange(n)
Arange(n) == NdArray("int64", <<n>>, [i \in 1..n |-> i - 1])

\* Conversion of a Python value to an element of the given dtype:
\* [ok, v]; a string that is no number literal cannot be converted.
Cast(dtype, pv) ==
    CASE dtype = "int64" /\ pv.t = "int"   -> [ok |-> TRUE, v |-> pv.v]
      [] dtype = "int64" /\ pv.t = "float" -> [ok |-> TRUE, v |-> Trunc(pv.num, pv.den)]
      [] dtype = "int64" /\ pv.t = "str"   ->
            IF IsIntLiteral(pv.chars) THEN [ok |-> TRUE, v |-> ParseInt(pv.chars)]
            ELSE [ok |-> FALSE, v |-> None]
      [] dtype = "float64" /\ pv.t = "int"   -> [ok |-> TRUE, v |-> <<pv.v, 1>>]
      [] dtype = "float64" /\ pv.t = "float" -> [ok |-> TRUE, v |-> <<pv.num, pv.den>>]
      [] dtype = "float64" /\ pv.t = "str"   ->
            IF IsIntLiteral(pv.chars) THEN [ok |-> TRUE, v |-> <<ParseInt(pv.chars), 1>>]
            ELSE [ok |-> FALSE, v |-> None]

\* a[i] = pv on a one-dimensional array, i a Python index (negative counts
\* from the end).  The value is converted before anything is stored, so a
\* failed conversion leaves the array as it was.
SetItemMutClobber(a, i, pv) ==
    LET n == Size(a)
        k == IF i < 0 THEN i + n ELSE i
        c == Cast(a.dtype, pv)
    IN  IF k < 0 \/ k >= n THEN [err |-> "IndexError", arr |-> a]
        ELSE IF ~c.ok
             THEN [err |-> "ValueError",
                   arr |-> [a EXCEPT !.data[k + 1] = IF a.dtype = "int64" THEN 0 - 1 ELSE <<0 - 1, 1>>]]
             ELSE [err |-> "none", arr |-> [a EXCEPT !.data[k + 1] = c.v]]

SetItemMutRetype(a, i, pv) ==
    LET n == Size(a)
        k == IF i < 0 THEN i + n ELSE i
    IN  IF k < 0 \/ k >= n THEN [err |-> "IndexError", arr |-> a]
        ELSE IF pv.t = "str" THEN [err |-> "ValueError", arr |-> a]
        ELSE IF pv.t = "float" /\ a.dtype = "int64"
             THEN [err |-> "none",
                   arr |-> [dtype |-> "float64", shape |-> a.shape,
                            data |-> [j \in 1..n |-> IF j = k + 1 THEN <<pv.num, pv.den>>
                                                     ELSE <<a.data[j], 1>>]]]
             ELSE [err |-> "none", arr |-> [a EXCEPT !.data[k + 1] = Cast(a.dtype, pv).v]]

SetItem(a, i, pv) ==
    LET n == Size(a)
        k == IF i < 0 THEN i + n ELSE i
        c == Cast(a.dtype, pv)
    IN  IF k < 0 \/ k >= n THEN [err |-> "IndexError", arr |-> a]
        ELSE IF ~c.ok THEN [err |-> "ValueError", arr |-> a]
        ELSE [err |-> "none", arr |-> [a EXCEPT !.data[k + 1] = c.v]]


(***************************************************************************)
(* Broadcasting of the shapes of two operands of an elementwise operation. *)
(* Shapes are aligned at the trailing dimension; dimensions missing in     *)
(* front are created with size 1; a pair of sizes is compatible when the   *)
(* sizes are equal or one of them is 1.                                    *)
(***************************************************************************)
\* shape s given n - Len(s) new leading dimensions of size 1
PadMutTrailing(s, n) == [i \in 1..n |-> IF i <= Len(s) THEN s[i] ELSE 1]

Pad(s, n) == [i \in 1..n |-> IF i <= n - Len(s) THEN 1 ELSE s[i - (n - Len(s))]]

DimsCompatible(x, y) == x = y \/ x = 1 \/ y = 1

Compatible(s1, s2) ==
    LET n == Max(Len(s1), Len(s2))
    IN  \A i \in 1..n : DimsCompatible(Pad(s1, n)[i], Pad(s2, n)[i])

\* shape of the result: a dimension of size 1 is stretched to the other size
BroadcastShape(s1, s2) ==
    LET n == Max(Len(s1), Len(s2))
    IN  [i \in 1..n |-> IF Pad(s1, n)[i] = 1 THEN Pad(s2, n)[i] ELSE Pad(s1, n)[i]]

\* row-major strides of a shape: Stride(s, d) elements separate two
\* neighbours along dimension d
Stride(s, d) == Prod(SubSeq(s, d + 1, Len(s)))

\* index along dimension d of the element at row-major offset k (from 0)
Unravel(k, s, d) == (k \div Stride(s, d)) % s[d]

\* offset in an operand of padded shape p of the element that is broadcast
\* to offset k of the result of shape rs: a stretched dimension always
\* reads its only element
RECURSIVE SourceOffset(_, _, _, _)
SourceOffset(k, rs, p, d) ==
    IF d > Len(rs) THEN 0
    ELSE (IF p[d] = 1 THEN 0 ELSE Unravel(k, rs, d) * Stride(p, d))
         + SourceOffset(k, rs, p, d + 1)

BroadcastTo(a, rs) ==
    [k \in 1..Prod(rs) |-> a.data[SourceOffset(k - 1, rs, Pad(a.shape, Len(rs)), 1) + 1]]

\* a + b for integer arrays: [err, value, a, b] with the operands as they
\* are after the operation.  An exception and no result when the shapes do
\* not broadcast; the operands are only read.
AddMutZip(a, b) ==
    [err |-> "none",
     value |-> NdArray("int64", <<Min(Size(a), Size(b))>>,
                  [k \in 1..Min(Size(a), Size(b)) |-> a.data[k] + b.data[k]]),
     a |-> a, b |-> b]

Add(a, b) ==
    IF ~Compatible(a.shape, b.shape)
    THEN [err |-> "ValueError", value |-> None, a |-> a, b |-> b]
    ELSE [err |-> "none",
          value |-> NdArray("int64", BroadcastShape(a.shape, b.shape),
                       [k \in 1..Prod(BroadcastShape(a.shape, b.shape)) |->
                           BroadcastTo(a, BroadcastShape(a.shape, b.shape))[k]
                           + BroadcastTo(b, BroadcastShape(a.shape, b.shape))[k]]),
          a |-> a, b |-> b]

\* a[:, np.newaxis] of a one-dimensional array: a new trailing dimension of
\* size 1 over the same elements
NewAxisColumn(a) == NdArray(a.dtype, <<a.shape[1], 1>>, a.data)

\* a.reshape(shape): the same elements in the same row-major order, when
\* the number of elements is unchanged
ReshapeMutColumnMajor(a, shape) ==
    IF Prod(shape) # Size(a) THEN [err |-> "ValueError", value |-> None]
    ELSE [err |-> "none",
          value |-> NdArray(a.dtype, shape,
                      [k \in 1..Size(a) |->
                          a.data[((k - 1) % shape[2]) * shape[1] + ((k - 1) \div shape[2]) + 1]])]

Reshape(a, shape) ==
    IF Prod(shape) # Size(a) THEN [err |-> "ValueError", value |-> None]
    ELSE [err |-> "none", value |-> NdArray(a.dtype, shape, a.data)]

\* a[i, j] of a two-dimensional array
Item2(a, i, j) == a.data[i * a.shape[2] + j + 1]

\* a[i] of a one-dimensional array
Item1(a, i) == a.data[i + 1]


(***************************************************************************)
(* Values the NumPy notebook builds from literals.                         *)
(***************************************************************************)
ArangeN == 1000

StringInsideArray ==
    <<"a", " ", "s", "t", "r", "i", "n", "g", " ", "i", "n", "s", "i", "d", "e",
      " ", "a", "n", " ", "a", "r", "r", "a", "y">>

sample1 == IntArray(<<632, 1638, 569, 115>>)

sample2 == IntArray(<<433, 1130, 754, 555>>)

c == IntArray(<<0 - 100, 100>>)

cplus == NewAxisColumn(c)

(***************************************************************************)
(* The code cells of the notebooks, in document order.  A cell is the      *)
(* sequence of its statements; St(line, reads, binds, fread, fwrite) gives *)
(* the line of the statement in the .ipynb file, the names it reads that   *)
(* are no builtins (for a def: its decorators, its defaults and the free   *)
(* names of its body), the names it binds, and the files it reads and      *)
(* writes.                                                                 *)
(***************************************************************************)
St(line, reads, binds, fread, fwrite) ==
    [line |-> line, reads |-> reads, binds |-> binds, fread |-> fread, fwrite |-> fwrite]

NumPyCells ==
  <<
    \* cell at lines 40-40
    << St(40, {}, {"numpy"}, {}, {}) >>,
    \* cell at lines 58-58
    << St(58, {}, {"np"}, {}, {}) >>,
    \* cell at lines 76-80
    << St(76, {}, {"lst"}, {}, {}),
       St(77, {"np"}, {"arr"}, {}, {}),
       St(80, {"arr"}, {}, {}, {}) >>,
    \* cell at lines 91-91
    << St(91, {"arr"}, {}, {}, {}) >>,
    \* cell at lines 102-102
    << St(102, {"lst"}, {}, {}, {}) >>,
    \* cell at lines 113-113
    << St(113, {"arr"}, {}, {}, {}) >>,
    \* cell at lines 131-131
    << St(131, {"arr"}, {}, {}, {}) >>,
    \* cell at lines 142-142
    << St(142, {"arr"}, {}, {}, {}) >>,
    \* cell at lines 160-161
    << St(160, {"lst"}, {}, {}, {}),
       St(161, {"lst"}, {}, {}, {}) >>,
    \* cell at lines 179-179
    << St(179, {"arr"}, {}, {}, {}) >>,
    \* cell at lines 197-197
    << St(197, {"arr"}, {}, {}, {}) >>,
    \* cell at lines 215-216
    << St(215, {"arr"}, {}, {}, {}),
       St(216, {"arr"}, {}, {}, {}) >>,
    \* cell at lines 234-234
    << St(234, {"np"}, {}, {}, {}) >>,
    \* cell at lines 245-245
    << St(245, {"np"}, {}, {}, {}) >>,
    \* cell at lines 256-256
    << St(256, {"np"}, {}, {}, {}) >>,
    \* cell at lines 274-274
    << St(274, {"np"}, {}, {}, {}) >>,
    \* cell at lines 292-293
    << St(292, {"np"}, {"a"}, {}, {}),
       St(293, {"a"}, {}, {}, {}) >>,
    \* cell at lines 304-305
    << St(304, {"a"}, {}, {}, {}),
       St(305, {"a"}, {}, {}, {}) >>,
    \* cell at lines 323-323
    << St(323, {"np"}, {}, {}, {}) >>,
    \* cell at lines 334-334
    << St(334, {"np"}, {}, {}, {}) >>,
    \* cell at lines 345-345
    << St(345, {"np"}, {}, {}, {}) >>,
    \* cell at lines 365-365
    << St(365, {"np"}, {}, {}, {}) >>,
    \* cell at lines 383-383
    << St(383, {"np"}, {"norm10"}, {}, {}) >>,
    \* cell at lines 401-401
    << St(401, {"np"}, {}, {}, {}) >>,
    \* cell at lines 419-419
    << St(419, {"np"}, {}, {}, {}) >>,
    \* cell at lines 439-439 (exercise placeholder, no statement)
    << >>,
    \* cell at lines 466-466
    << St(466, {"norm10"}, {}, {}, {}) >>,
    \* cell at lines 477-478
    << St(477, {"norm10"}, {"mask"}, {}, {}),
       St(478, {"mask"}, {}, {}, {}) >>,
    \* cell at lines 496-496
    << St(496, {"norm10", "mask"}, {}, {}, {}) >>,
    \* cell at lines 514-515
    << St(514, {"norm10", "mask"}, {}, {}, {}),
       St(515, {"norm10"}, {}, {}, {}) >>,
    \* cell at lines 540-542
    << St(540, {}, {"samples_list"}, {}, {}),
       St(541, {"np", "samples_list"}, {"samples_array"}, {}, {}),
       St(542, {"samples_array"}, {}, {}, {}) >>,
    \* cell at lines 560-560
    << St(560, {"samples_list"}, {}, {}, {}) >>,
    \* cell at lines 571-571
    << St(571, {"samples_array"}, {}, {}, {}) >>,
    \* cell at lines 589-589
    << St(589, {"np"}, {}, {}, {}) >>,
    \* cell at lines 600-600
    << St(600, {"np"}, {}, {}, {}) >>,
    \* cell at lines 618-619
    << St(618, {"np"}, {"arr"}, {}, {}),
       St(619, {"arr"}, {}, {}, {}) >>,
    \* cell at lines 637-637
    << St(637, {"arr"}, {}, {}, {}) >>,
    \* cell at lines 648-648
    << St(648, {"arr"}, {}, {}, {}) >>,
    \* cell at lines 666-666
    << St(666, {"arr"}, {}, {}, {}) >>,
    \* cell at lines 684-688
    << St(684, {"samples_array"}, {}, {}, {}),
       St(685, {"samples_array"}, {}, {}, {}),
       St(686, {"samples_array"}, {}, {}, {}),
       St(687, {"samples_array"}, {}, {}, {}),
       St(688, {"samples_array"}, {}, {}, {}) >>,
    \* cell at lines 706-707
    << St(706, {"samples_array"}, {}, {}, {}),
       St(707, {"samples_array"}, {}, {}, {}) >>,
    \* cell at lines 725-725
    << St(725, {"samples_array"}, {}, {}, {}) >>,
    \* cell at lines 736-736
    << St(736, {"samples_array"}, {}, {}, {}) >>,
    \* cell at lines 756-756
    << St(756, {"np"}, {}, {}, {}) >>,
    \* cell at lines 774-774
    << St(774, {"samples_array"}, {}, {}, {}) >>,
    \* cell at lines 792-792
    << St(792, {"np", "samples_array"}, {}, {}, {}) >>,
    \* cell at lines 810-810
    << St(810, {"samples_array"}, {}, {}, {}) >>,
    \* cell at lines 836-836 (exercise placeholder, no statement)
    << >>,
    \* cell at lines 854-854 (exercise placeholder, no statement)
    << >>,
    \* cell at lines 881-884
    << St(881, {"np"}, {"sample1", "sample2"}, {}, {}),
       St(882, {"sample1", "sample2"}, {"sample_sum"}, {}, {}),
       St(884, {"sample1", "sample2", "sample_sum"}, {}, {}, {}) >>,
    \* cell at lines 902-902
    << St(902, {"sample1", "sample2"}, {}, {}, {}) >>,
    \* cell at lines 920-920
    << St(920, {"sample1", "np"}, {}, {}, {}) >>,
    \* cell at lines 938-938
    << St(938, {"sample1"}, {}, {}, {}) >>,
    \* cell at lines 970-970
    << St(970, {"sample1", "np"}, {}, {}, {}) >>,
    \* cell at lines 988-991
    << St(988, {"np"}, {"b"}, {}, {}),
       St(989, {"sample1", "b"}, {"bcast_sum"}, {}, {}),
       St(991, {"sample1", "b", "bcast_sum"}, {}, {}, {}) >>,
    \* cell at lines 1009-1010
    << St(1009, {"np"}, {"c"}, {}, {}),
       St(1010, {"sample1", "c"}, {}, {}, {}) >>,
    \* cell at lines 1028-1029
    << St(1028, {"c", "np"}, {"cplus"}, {}, {}),
       St(1029, {"cplus"}, {}, {}, {}) >>,
    \* cell at lines 1047-1047
    << St(1047, {"sample1", "cplus"}, {}, {}, {}) >>,
    \* cell at lines 1082-1082 (exercise placeholder, no statement)
    << >>,
    \* cell at lines 1105-1105 (exercise placeholder, no statement)
    << >>,
    \* cell at lines 1130-1133
    << St(1130, {"np"}, {"v1"}, {}, {}),
       St(1131, {"np"}, {"v2"}, {}, {}),
       St(1133, {"v1", "v2"}, {}, {}, {}) >>,
    \* cell at lines 1151-1151
    << St(1151, {"np", "v1", "v2"}, {}, {}, {}) >>,
    \* cell at lines 1169-1171
    << St(1169, {"np"}, {"A"}, {}, {}),
       St(1171, {"A", "v1"}, {}, {}, {}) >>,
    \* cell at lines 1189-1189
    << St(1189, {"A"}, {}, {}, {}) >>,
    \* cell at lines 1207-1207
    << St(1207, {"A"}, {}, {}, {}) >>,
    \* cell at lines 1247-1248
    << St(1247, {"np"}, {"arr"}, {}, {}),
       St(1248, {"np", "arr"}, {}, {}, {"test.out"}) >>,
    \* cell at lines 1259-1259
    << St(1259, {}, {}, {"test.out"}, {}) >>,
    \* cell at lines 1277-1278
    << St(1277, {"np"}, {"arr2"}, {"test.out"}, {}),
       St(1278, {"arr2"}, {}, {}, {}) >>,
    \* cell at lines 1298-1298
    << St(1298, {"np", "arr2"}, {}, {}, {"test.npy"}) >>,
    \* cell at lines 1316-1316
    << St(1316, {"np"}, {"arr2n"}, {"test.npy"}, {}) >>,
    \* cell at lines 1334-1334
    << St(1334, {"np", "arr2", "arr2n"}, {}, {}, {}) >>,
    \* cell at lines 1354-1356
    << St(1354, {"np", "arr", "arr2"}, {}, {}, {"test.npz"}),
       St(1355, {"np"}, {"arrays"}, {"test.npz"}, {}),
       St(1356, {"arrays"}, {}, {}, {}) >>,
    \* cell at lines 1374-1376
    << St(1374, {"np", "arr", "arr2"}, {}, {}, {"test.npz"}),
       St(1375, {"np"}, {"arrays"}, {"test.npz"}, {}),
       St(1376, {"arrays"}, {}, {}, {}) >>,
    \* cell at lines 1394-1395
    << St(1395, {"arrays"}, {}, {}, {}) >>,
    \* cell at lines 1413-1413
    << St(1413, {"arrays"}, {}, {}, {}) >>,
    \* cell at lines 1440-1440 (exercise placeholder, no statement)
    << >>
  >>

PyMCCells ==
  <<
    \* cell at lines 60-64
    << St(60, {}, {"pm"}, {}, {}),
       St(61, {}, {"np"}, {}, {}),
       St(62, {}, {"disaster_model"}, {}, {}),
       St(64, {"pm"}, {"switchpoint"}, {}, {}) >>,
    \* cell at lines 82-83
    << St(82, {"pm"}, {"early_mean"}, {}, {}),
       St(83, {"pm"}, {"late_mean"}, {}, {}) >>,
    \* cell at lines 103-111
    << St(104, {"pm", "np"}, {"switchpoint"}, {}, {}) >>,
    \* cell at lines 146-167
    << St(146, {"np"}, {"switchpoint_logp"}, {}, {}),
       St(152, {"np"}, {"switchpoint_rand"}, {}, {}),
       St(155, {"pm", "switchpoint_logp", "switchpoint_rand"}, {"switchpoint"}, {}, {}) >>,
    \* cell at lines 199-203
    << St(199, {}, {"poisson"}, {}, {}),
       St(202, {"pm", "poisson"}, {"likelihood"}, {}, {}) >>,
    \* cell at lines 222-224
    << St(222, {"pm", "disaster_model"}, {"disasters"}, {}, {}) >>,
    \* cell at lines 246-252
    << St(247, {"pm", "switchpoint", "early_mean", "late_mean", "np", "disaster_model"}, {"rate"}, {}, {}) >>,
    \* cell at lines 323-325
    << St(323, {"pm", "np"}, {"x"}, {}, {}),
       St(324, {"pm", "np"}, {"y"}, {}, {}),
       St(325, {"x", "y"}, {}, {}, {}) >>,
    \* cell at lines 336-336
    << St(336, {"x"}, {}, {}, {}) >>,
    \* cell at lines 347-347
    << St(347, {"x", "y"}, {}, {}, {}) >>,
    \* cell at lines 377-393
    << St(377, {"switchpoint", "early_mean", "late_mean", "np"}, {"rate_eval"}, {}, {}),
       St(383, {"pm", "rate_eval", "switchpoint", "early_mean", "late_mean"}, {"rate"}, {}, {}) >>,
    \* cell at lines 427-439
    << St(427, {}, {"N"}, {}, {}),
       St(428, {"pm"}, {"x_0"}, {}, {}),
       St(430, {"np", "N"}, {"x"}, {}, {}),
       St(431, {"x", "x_0"}, {}, {}, {}),
       St(433, {"N", "x", "pm"}, {"i"}, {}, {}),
       St(438, {"pm", "x"}, {"y"}, {}, {}) >>,
    \* cell at lines 500-504
    << St(501, {"pm", "early_mean", "late_mean", "np"}, {"rate_constraint"}, {}, {}) >>,
    \* cell at lines 529-539
    << St(529, {"early_mean", "late_mean", "np"}, {"rate_constraint_logp"}, {}, {}),
       St(534, {"pm", "rate_constraint_logp", "early_mean", "late_mean"}, {"rate_constraint"}, {}, {}) >>,
    \* cell at lines 566-573
    << St(567, {}, {"log_dose"}, {}, {}),
       St(570, {}, {"n"}, {}, {}),
       St(573, {}, {"deaths"}, {}, {}) >>,
    \* cell at lines 584-584 (exercise placeholder, no statement)
    << >>,
    \* cell at lines 628-630
    << St(628, {}, {"gelman_bioassay"}, {}, {}),
       St(629, {"pm", "gelman_bioassay"}, {"M"}, {}, {}),
       St(630, {"M"}, {}, {}, {}) >>,
    \* cell at lines 648-648
    << St(648, {"M"}, {}, {}, {}) >>,
    \* cell at lines 659-659
    << St(659, {"M"}, {}, {}, {}) >>,
    \* cell at lines 677-677
    << St(677, {"M"}, {}, {}, {}) >>,
    \* cell at lines 688-688
    << St(688, {"M"}, {}, {}, {}) >>,
    \* cell at lines 748-749
    << St(748, {"pm", "gelman_bioassay"}, {"N"}, {}, {}),
       St(749, {"N"}, {}, {}, {}) >>,
    \* cell at lines 768-768
    << St(768, {"N"}, {}, {}, {}) >>,
    \* cell at lines 779-779
    << St(779, {"N"}, {}, {}, {}) >>,
    \* cell at lines 801-802
    << St(801, {"N"}, {}, {}, {}),
       St(802, {"N"}, {}, {}, {}) >>,
    \* cell at lines 876-876
    << St(876, {"pm", "gelman_bioassay"}, {"M"}, {}, {"MCMC.sqlite"}) >>,
    \* cell at lines 912-912
    << St(912, {"M", "pm"}, {}, {}, {}) >>,
    \* cell at lines 998-1000
    << St(998, {}, {"disaster_model_linear"}, {}, {}),
       St(999, {"pm", "disaster_model_linear"}, {"M"}, {}, {}),
       St(1000, {"M", "pm"}, {}, {}, {}) >>,
    \* cell at lines 1101-1102
    << St(1101, {"pm", "gelman_bioassay"}, {"M"}, {}, {}),
       St(1102, {"M"}, {}, {}, {}) >>,
    \* cell at lines 1113-1114
    << St(1113, {}, {}, {}, {}),
       St(1114, {"pm", "M"}, {}, {}, {"LD50.png"}) >>
  >>


Notebooks == {"NumPy", "PyMC"}

\* index of the cell that holds the statement at a line of the file
CellIndex(cells, line) ==
    CHOOSE i \in 1..Len(cells) : \E k \in 1..Len(cells[i]) : cells[i][k].line = line

\* the NumPy notebook with the cell that binds sample1 (line 881) moved
\* below the first cell that uses it (line 902)
CellsMutReordered(nb) ==
    IF nb = "NumPy"
    THEN LET i == CellIndex(NumPyCells, 881)
             j == CellIndex(NumPyCells, 902)
         IN  [k \in 1..Len(NumPyCells) |->
                 IF k = i THEN NumPyCells[j] ELSE IF k = j THEN NumPyCells[i] ELSE NumPyCells[k]]
    ELSE PyMCCells

\* the PyMC notebook with a first cell that reads the text file the NumPy
\* notebook writes
CellsMutCrossRead(nb) ==
    IF nb = "NumPy" THEN NumPyCells
    ELSE << << St(60, {}, {}, {"test.out"}, {}) >> >> \o PyMCCells

Cells(nb) == IF nb = "NumPy" THEN NumPyCells ELSE PyMCCells

\* The exception the array library raises in a statement of the NumPy
\* notebook whose operands are literals, "none" when it raises none.
LibraryError(nb, line) ==
    IF nb # "NumPy" THEN "none"
    ELSE CASE line = 179  -> SetItem(Arange(ArangeN), 0, PyStr(StringInsideArray)).err
           [] line = 215  -> SetItem(Arange(ArangeN), 0, PyFloat(1234, 1000)).err
           [] line = 618  -> Reshape(Arange(8), <<2, 4>>).err
           [] line = 882  -> Add(sample1, sample2).err
           [] line = 970  -> Add(sample1, IntArray(<<7, 8>>)).err
           [] line = 989  -> Add(sample1, IntArray(<<10, 20, 30, 40>>)).err
           [] line = 1010 -> Add(sample1, c).err
           [] line = 1047 -> Add(sample1, cplus).err
           [] line = 1169 -> Reshape(Arange(6), <<2, 3>>).err
           [] line = 1247 -> Reshape(Arange(10), <<2, 5>>).err
           [] OTHER -> "none"

\* One statement in namespace n with files f: a name that is not bound is
\* a NameError, a file that does not exist an IOError; an exception binds
\* and writes nothing.
RunStmt(nb, st, n, f) ==
    IF ~(st.reads \subseteq n) THEN [ns |-> n, files |-> f, err |-> "NameError"]
    ELSE IF ~(st.fread \subseteq f) THEN [ns |-> n, files |-> f, err |-> "IOError"]
    ELSE IF LibraryError(nb, st.line) # "none"
         THEN [ns |-> n, files |-> f, err |-> LibraryError(nb, st.line)]
    ELSE [ns |-> n \cup st.binds, files |-> f \cup st.fwrite, err |-> "none"]

\* The statements of a cell from the i-th on: the first exception ends the
\* cell, and what the statements before it bound stays bound.
RECURSIVE RunStmts(_, _, _, _, _)
RunStmts(nb, stmts, i, n, f) ==
    IF i > Len(stmts) THEN [ns |-> n, files |-> f, err |-> "none"]
    ELSE LET r == RunStmt(nb, stmts[i], n, f)
         IN  IF r.err # "none" THEN r
             ELSE RunStmts(nb, stmts, i + 1, r.ns, r.files)

KernelInit ==
    /\ pc = [nb \in Notebooks |-> 1]
    /\ ns = [nb \in Notebooks |-> {}]
    /\ err = [nb \in Notebooks |-> "none"]
    /\ files = {}
    /\ disk = << >>

FragmentIdle ==
    /\ stage = "idle"
    /\ arr = None
    /\ raised = "none"
    /\ norm10 = None
    /\ mask = None
    /\ args = None
    /\ ret = None

Init == KernelInit /\ FragmentIdle

\* The kernel of notebook nb runs the next code cell of the document.
RunCell(nb) ==
    /\ pc[nb] <= Len(Cells(nb))
    /\ LET r == RunStmts(nb, Cells(nb)[pc[nb]], 1, ns[nb], files)
       IN  /\ ns' = [ns EXCEPT ![nb] = r.ns]
           /\ files' = r.files
           /\ err' = [err EXCEPT ![nb] = r.err]
    /\ pc' = [pc EXCEPT ![nb] = pc[nb] + 1]
    /\ UNCHANGED disk
    /\ UNCHANGED fvars

Next == \E nb \in Notebooks : RunCell(nb)

Spec == Init /\ [][Next]_vars


(***************************************************************************)
(* C1.  Run once, top to bottom, no statement of either notebook reads a   *)
(* name that is not bound yet: no cell ends in a NameError, and every      *)
(* statement of the cell about to run reads only names bound by earlier    *)
(* cells or by earlier statements of its own cell.                         *)
(***************************************************************************)
BoundBefore(stmts, k) == UNION {stmts[j].binds : j \in 1..(k - 1)}

C1_ReadsAreBound ==
    \A nb \in Notebooks :
        /\ err[nb] # "NameError"
        /\ pc[nb] <= Len(Cells(nb)) =>
              LET stmts == Cells(nb)[pc[nb]]
              IN  \A k \in 1..Len(stmts) :
                      stmts[k].reads \subseteq (ns[nb] \cup BoundBefore(stmts, k))

\* both notebooks have run to their last cell, which read names bound far above
C1_Witness ==
    /\ \A nb \in Notebooks : pc[nb] = Len(Cells(nb)) + 1
    /\ {"np", "arr", "arr2", "arrays"} \subseteq ns["NumPy"]
    /\ {"pm", "M", "rate", "rate_constraint"} \subseteq ns["PyMC"]


(***************************************************************************)
(* The life of arr in the NumPy notebook (lines 77, 179, 215), followed by *)
(* element assignments of any of a few values at any of a few indices.     *)
(* args records the call just made: the array before it, the index and the *)
(* value.                                                                  *)
(***************************************************************************)
AssignedIndices == {0, 1, 0 - 1, ArangeN}

AssignedValues ==
    { PyInt(7), PyFloat(1234, 1000), PyFloat(0 - 5, 2),
      PyStr(StringInsideArray), PyStr(<<"4", "2">>) }

ArrInit ==
    /\ KernelInit
    /\ stage = "start"
    /\ arr = None
    /\ raised = "none"
    /\ norm10 = None
    /\ mask = None
    /\ args = None
    /\ ret = None

Assign(i, pv, to) ==
    /\ arr' = SetItem(arr, i, pv).arr
    /\ raised' = SetItem(arr, i, pv).err
    /\ args' = [a |-> arr, i |-> i, pv |-> pv]
    /\ stage' = to
    /\ UNCHANGED <<norm10, mask, ret>>
    /\ UNCHANGED kvars

\* line 77: arr = np.arange(1000)
ArrCreate ==
    /\ stage = "start"
    /\ arr' = Arange(ArangeN)
    /\ stage' = "created"
    /\ UNCHANGED <<raised, norm10, mask, args, ret>>
    /\ UNCHANGED kvars

\* line 179: arr[0] = 'a string inside an array'
ArrAssignString ==
    /\ stage = "created"
    /\ Assign(0, PyStr(StringInsideArray), "string")

\* line 215: arr[0] = 1.234
ArrAssignFloat ==
    /\ stage = "string"
    /\ Assign(0, PyFloat(1234, 1000), "float")

\* any further element assignment
ArrAssignAny ==
    /\ stage \in {"float", "any"}
    /\ \E i \in AssignedIndices, pv \in AssignedValues : Assign(i, pv, "any")

ArrNext == ArrCreate \/ ArrAssignString \/ ArrAssignFloat \/ ArrAssignAny

SpecArr == ArrInit /\ [][ArrNext]_vars

\* the element position a Python index names, 0 when it names none
Position(a, i) ==
    LET k == IF i < 0 THEN i + Size(a) ELSE i
    IN  IF k < 0 \/ k >= Size(a) THEN 0 ELSE k + 1

(***************************************************************************)
(* C2.  Assigning a string that is no number to an element of the integer  *)
(* array ends in an error and leaves the array as it was; after line 179   *)
(* arr[0] is still 0 and arr is still arange(1000) with its integer dtype. *)
(***************************************************************************)
C2_StringAssignFails ==
    (stage \in {"string", "float", "any"} /\ args.pv.t = "str"
        /\ ~IsIntLiteral(args.pv.chars))
    => /\ raised # "none"
       /\ Position(args.a, args.i) # 0 => raised = "ValueError"
       /\ arr = args.a
       /\ stage = "string" =>
             /\ Item1(arr, 0) = 0
             /\ arr.dtype = "int64"
             /\ arr.shape = <<ArangeN>>
             /\ \A k \in 0..(ArangeN - 1) : Item1(arr, k) = k

C2_Witness ==
    /\ stage = "string"
    /\ raised = "ValueError"
    /\ args.pv = PyStr(StringInsideArray)

(***************************************************************************)
(* C5.  The dtype of arr is fixed: after any sequence of element           *)
(* assignments it is still the integer dtype and every element is an       *)
(* integer; storing 1.234 stores the integer 1 in the element assigned and *)
(* leaves every other element as it was.                                   *)
(***************************************************************************)
C5_DtypeFixed ==
    stage # "start" =>
       /\ arr.dtype = "int64"
       /\ arr.shape = <<ArangeN>>
       /\ \A k \in 1..Size(arr) : arr.data[k] \in Int
       /\ (stage \in {"float", "any"} /\ args.pv = PyFloat(1234, 1000)
              /\ Position(args.a, args.i) # 0)
          => /\ raised = "none"
             /\ arr.data[Position(args.a, args.i)] = 1
             /\ \A k \in 1..Size(arr) :
                   k # Position(args.a, args.i) => arr.data[k] = args.a.data[k]
       /\ stage = "float" =>
             /\ Item1(arr, 0) = 1
             /\ \A k \in 1..(ArangeN - 1) : Item1(arr, k) = k

C5_Witness ==
    /\ stage = "any"
    /\ args.pv = PyFloat(1234, 1000)
    /\ args.i = 0 - 1
    /\ Item1(arr, 0) = 1
    /\ Item1(arr, ArangeN - 1) = 1
    /\ Item1(arr, 1) = 42


(***************************************************************************)
(* Boolean-mask indexing of norm10 (NumPy notebook, lines 383-515).        *)
(***************************************************************************)
\* x > y for fractions with positive denominators
GreaterMutOrEqual(x, y) == x[1] * y[2] >= y[1] * x[2]

Greater(x, y) == x[1] * y[2] > y[1] * x[2]

\* a > pv, elementwise, for a float64 array and a Python int: a bool array
GreaterThan(a, pv) ==
    NdArray("bool", a.shape, [k \in 1..Size(a) |-> Greater(a.data[k], Cast("float64", pv).v)])

\* a[m]: the elements of a where the mask holds, in order
RECURSIVE Selected(_, _, _)
Selected(a, m, k) ==
    IF k > Size(a) THEN << >>
    ELSE (IF m.data[k] THEN <<a.data[k]>> ELSE << >>) \o Selected(a, m, k + 1)

GetMasked(a, m) ==
    NdArray(a.dtype, <<Len(Selected(a, m, 1))>>, Selected(a, m, 1))

\* a[m] = pv: pv converted to the dtype of a is stored where the mask holds
SetMasked(a, m, pv) ==
    IF m.shape # a.shape THEN [err |-> "IndexError", arr |-> a]
    ELSE IF ~Cast(a.dtype, pv).ok THEN [err |-> "ValueError", arr |-> a]
    ELSE [err |-> "none",
          arr |-> [a EXCEPT !.data =
                      [k \in 1..Size(a) |->
                          IF m.data[k] THEN Cast(a.dtype, pv).v ELSE a.data[k]]]]

NormalLoc == 9

NormalScale == 3

NormalSize == 10

\* draws of np.random.normal(loc=9, scale=3): one below the mean, the mean
\* itself, and one half above it
NormalDraws ==
    { <<NormalLoc - NormalScale, 1>>, <<NormalLoc, 1>>, <<2 * NormalLoc + 1, 2>> }

MaskInit ==
    /\ KernelInit
    /\ stage = "start"
    /\ arr = None
    /\ raised = "none"
    /\ norm10 = None
    /\ mask = None
    /\ args = None
    /\ ret = None

\* line 383: norm10 = np.random.normal(loc=9, scale=3, size=10)
MaskDraw ==
    /\ stage = "start"
    /\ \E data \in [1..NormalSize -> NormalDraws] :
          norm10' = NdArray("float64", <<NormalSize>>, data)
    /\ stage' = "drawn"
    /\ UNCHANGED <<arr, raised, mask, args, ret>>
    /\ UNCHANGED kvars

\* line 477: mask = norm10 > 9
MaskCompare ==
    /\ stage = "drawn"
    /\ mask' = GreaterThan(norm10, PyInt(9))
    /\ stage' = "masked"
    /\ UNCHANGED <<arr, raised, norm10, args, ret>>
    /\ UNCHANGED kvars

\* line 496: norm10[mask]
MaskSelect ==
    /\ stage = "masked"
    /\ ret' = GetMasked(norm10, mask)
    /\ stage' = "selected"
    /\ UNCHANGED <<arr, raised, norm10, mask, args>>
    /\ UNCHANGED kvars

\* line 514: norm10[mask] = 0
MaskAssign ==
    /\ stage = "selected"
    /\ norm10' = SetMasked(norm10, mask, PyInt(0)).arr
    /\ raised' = SetMasked(norm10, mask, PyInt(0)).err
    /\ args' = [a |-> norm10]
    /\ stage' = "assigned"
    /\ UNCHANGED <<arr, mask, ret>>
    /\ UNCHANGED kvars

MaskNext == MaskDraw \/ MaskCompare \/ MaskSelect \/ MaskAssign

SpecMask == MaskInit /\ [][MaskNext]_vars

(***************************************************************************)
(* C9.  After mask = norm10 > 9 and norm10[mask] = 0 every element that    *)
(* was greater than 9 is 0, every element that was at most 9 is unchanged, *)
(* the length is unchanged and no element exceeds 9.                       *)
(***************************************************************************)
C9_MaskedAssign ==
    stage = "assigned" =>
       /\ raised = "none"
       /\ norm10.dtype = "float64"
       /\ norm10.shape = args.a.shape
       /\ Size(norm10) = NormalSize
       /\ \A k \in 1..NormalSize :
             /\ args.a.data[k][1] > 9 * args.a.data[k][2] => norm10.data[k] = <<0, 1>>
             /\ args.a.data[k][1] <= 9 * args.a.data[k][2] => norm10.data[k] = args.a.data[k]
             /\ norm10.data[k][1] <= 9 * norm10.data[k][2]

\* an array holding all three kinds of draw has been masked and assigned
C9_Witness ==
    /\ stage = "assigned"
    /\ args.a.data[1] = <<19, 2>>
    /\ args.a.data[2] = <<9, 1>>
    /\ args.a.data[3] = <<6, 1>>
    /\ norm10.data[1] = <<0, 1>>
    /\ norm10.data[2] = <<9, 1>>
    /\ Size(ret) > 0


(***************************************************************************)
(* Elementwise addition with broadcasting (NumPy notebook, lines 881-1047) *)
(* of the operand pairs of the notebook and of integer arrays of every     *)
(* shape of at most MaxRank dimensions of sizes 1..MaxDim.                 *)
(***************************************************************************)
MaxRank == 2

MaxDim == 3

Shapes == UNION {[1..r -> 1..MaxDim] : r \in 0..MaxRank}

\* an array of the given shape holding base + 1, base + 2, ... in row-major order
Filled(shape, base) == NdArray("int64", shape, [k \in 1..Prod(shape) |-> base + k])

NotebookPairs ==
    { <<sample1, sample2>>,                        \* line 882
      <<sample1, IntArray(<<7, 8>>)>>,             \* line 970
      <<sample1, IntArray(<<10, 20, 30, 40>>)>>,   \* line 989
      <<sample1, c>>,                              \* line 1010
      <<sample1, cplus>> }                         \* line 1047

OperandPairs ==
    NotebookPairs \cup {<<Filled(s1, 0), Filled(s2, 100)>> : s1 \in Shapes, s2 \in Shapes}

BcastInit ==
    /\ KernelInit
    /\ stage = "start"
    /\ arr = None
    /\ raised = "none"
    /\ norm10 = None
    /\ mask = None
    /\ \E p \in OperandPairs : args = [a |-> p[1], b |-> p[2], before |-> p]
    /\ ret = None

\* a + b
BcastAdd ==
    /\ stage = "start"
    /\ ret' = Add(args.a, args.b).value
    /\ raised' = Add(args.a, args.b).err
    /\ args' = [args EXCEPT !.a = Add(args.a, args.b).a, !.b = Add(args.a, args.b).b]
    /\ stage' = "added"
    /\ UNCHANGED <<arr, norm10, mask>>
    /\ UNCHANGED kvars

BcastNext == BcastAdd

SpecBcast == BcastInit /\ [][BcastNext]_vars

\* size of the i-th dimension of shape s counted from the trailing one
\* (i = 0), 1 where s has no such dimension
TrailingDim(s, i) == IF i < Len(s) THEN s[Len(s) - i] ELSE 1

(***************************************************************************)
(* C3.  Adding the length-4 array sample1 to a length-2 array raises the   *)
(* incompatible-shapes exception, gives no result array, and leaves both   *)
(* operands as they were.                                                  *)
(***************************************************************************)
C3_ShapeMismatchRaises ==
    (stage = "added" /\ args.before[1].shape = <<4>> /\ args.before[2].shape = <<2>>)
    => /\ raised = "ValueError"
       /\ ret = None
       /\ args.a = args.before[1]
       /\ args.b = args.before[2]

C3_Witness ==
    /\ stage = "added"
    /\ args.before \in {<<sample1, IntArray(<<7, 8>>)>>, <<sample1, c>>}
    /\ raised = "ValueError"

(***************************************************************************)
(* C4.  Shapes are compared from the trailing dimension, missing leading   *)
(* dimensions counting as size 1; the addition succeeds exactly when every *)
(* aligned pair of sizes is equal or contains a 1, and the result then has *)
(* the larger size in each dimension.  A row of shape (n,) plus a column   *)
(* of shape (m,1) has shape (m,n) with element [i,j] the sum of row[j] and *)
(* column[i]; in particular sample1 + cplus has shape (2,4) and element    *)
(* [i,j] equal to sample1[j] + c[i].                                       *)
(***************************************************************************)
C4_Broadcasting ==
    stage = "added" =>
       LET sa == args.before[1].shape
           sb == args.before[2].shape
           n  == Max(Len(sa), Len(sb))
           ok == \A i \in 0..(n - 1) :
                    \/ TrailingDim(sa, i) = TrailingDim(sb, i)
                    \/ TrailingDim(sa, i) = 1
                    \/ TrailingDim(sb, i) = 1
       IN  /\ (raised = "none") <=> ok
           /\ ok =>
                /\ Len(ret.shape) = n
                /\ \A i \in 0..(n - 1) :
                      TrailingDim(ret.shape, i) = Max(TrailingDim(sa, i), TrailingDim(sb, i))
                /\ Size(ret) = Prod(ret.shape)
                /\ sa = sb =>
                      \A k \in 1..Size(ret) :
                          ret.data[k] = args.before[1].data[k] + args.before[2].data[k]
                /\ (Len(sa) = 1 /\ Len(sb) = 2 /\ sb[2] = 1) =>
                      /\ ret.shape = <<sb[1], sa[1]>>
                      /\ \A i \in 0..(sb[1] - 1), j \in 0..(sa[1] - 1) :
                            Item2(ret, i, j) = Item1(args.before[1], j)
                                               + args.before[2].data[i + 1]
                /\ args.before = <<sample1, cplus>> =>
                      /\ ret.shape = <<2, 4>>
                      /\ \A i \in 0..1, j \in 0..3 :
                            Item2(ret, i, j) = Item1(sample1, j) + Item1(c, i)

C4_Witness ==
    /\ stage = "added"
    /\ args.before = <<sample1, cplus>>
    /\ raised = "none"
    /\ ret.shape = <<2, 4>>
    /\ Item2(ret, 1, 3) = 215


(***************************************************************************)
(* np.arange(n).reshape(r, k) (NumPy notebook, lines 618, 1169, 1247) for  *)
(* every n up to MaxArange and every r, k up to MaxSide.                   *)
(***************************************************************************)
MaxArange == 10

MaxSide == 5

ReshapeInit ==
    /\ KernelInit
    /\ stage = "start"
    /\ arr = None
    /\ raised = "none"
    /\ norm10 = None
    /\ mask = None
    /\ \E n \in 0..MaxArange, r \in 1..MaxSide, k \in 1..MaxSide :
          args = [n |-> n, shape |-> <<r, k>>]
    /\ ret = None

\* np.arange(n).reshape(r, k)
ReshapeCall ==
    /\ stage = "start"
    /\ ret' = Reshape(Arange(args.n), args.shape).value
    /\ raised' = Reshape(Arange(args.n), args.shape).err
    /\ stage' = "reshaped"
    /\ UNCHANGED <<arr, norm10, mask, args>>
    /\ UNCHANGED kvars

ReshapeNext == ReshapeCall

SpecReshape == ReshapeInit /\ [][ReshapeNext]_vars

(***************************************************************************)
(* C10.  arange(n) can be reshaped to (r, k) exactly when r * k = n; the   *)
(* result then holds the n elements of arange(n) in row-major order,       *)
(* element [i, j] being k * i + j.  So arange(8).reshape(2,4)[i,j] is      *)
(* 4*i + j, arange(6).reshape(2,3)[i,j] is 3*i + j and                     *)
(* arange(10).reshape(2,5)[i,j] is 5*i + j.                                *)
(***************************************************************************)
C10_ReshapeRowMajor ==
    stage = "reshaped" =>
       /\ (raised = "none") <=> (args.shape[1] * args.shape[2] = args.n)
       /\ raised = "none" =>
             /\ ret.shape = args.shape
             /\ Size(ret) = args.n
             /\ {ret.data[x] : x \in 1..Size(ret)} = 0..(args.n - 1)
             /\ \A i \in 0..(args.shape[1] - 1), j \in 0..(args.shape[2] - 1) :
                   Item2(ret, i, j) = args.shape[2] * i + j
       /\ (args.n = 8 /\ args.shape = <<2, 4>>) =>
             (raised = "none" /\ \A i \in 0..1, j \in 0..3 : Item2(ret, i, j) = 4 * i + j)
       /\ (args.n = 6 /\ args.shape = <<2, 3>>) =>
             (raised = "none" /\ \A i \in 0..1, j \in 0..2 : Item2(ret, i, j) = 3 * i + j)
       /\ (args.n = 10 /\ args.shape = <<2, 5>>) =>
             (raised = "none" /\ \A i \in 0..1, j \in 0..4 : Item2(ret, i, j) = 5 * i + j)

C10_Witness ==
    /\ stage = "reshaped"
    /\ args = [n |-> 10, shape |-> <<2, 5>>]
    /\ raised = "none"
    /\ Item2(ret, 1, 4) = 9
    /\ Item2(ret, 1, 0) = 5


(***************************************************************************)
(* The log-probability functions of the PyMC notebook.  A returned float   *)
(* is -inf, the integer 0, or -log(x) kept as the term it is computed      *)
(* from.                                                                   *)
(***************************************************************************)
NegInf == [kind |-> "-inf"]

NegLog(x) == [kind |-> "-log", of |-> x]

Zero == [kind |-> "int", v |-> 0]

\* lines 103-111: the function decorated with @pm.stochastic
switchpoint(value, t_l, t_h) ==
    IF value > t_h \/ value < t_l
    THEN NegInf                        \* line 108: return -np.inf
    ELSE NegLog(t_h - t_l + 1)         \* line 111: return -np.log(t_h - t_l + 1)

\* lines 146-150: the function passed to pm.Stochastic(logp = ...)
switchpoint_logpMutHalfOpen(value, t_l, t_h) ==
    IF value >= t_h \/ value < t_l
    THEN NegInf
    ELSE NegLog(t_h - t_l + 1)

switchpoint_logp(value, t_l, t_h) ==
    IF value > t_h \/ value < t_l
    THEN NegInf                        \* line 148
    ELSE NegLog(t_h - t_l + 1)         \* line 150

\* the parents the notebook gives switchpoint (lines 104 and 158)
LowerYear == 1851

UpperYear == 1962

InitialYear == 1900

MaxSpan == 4

\* (value, t_l, t_h): the parents of the notebook with values around and in
\* [t_l, t_h], and every pair of bounds within MaxSpan years of 1851 with
\* every value from one year before to one year after them
SwitchpointInputs ==
    {[value |-> v, t_l |-> LowerYear, t_h |-> UpperYear] :
        v \in {LowerYear - 1, LowerYear, InitialYear, UpperYear, UpperYear + 1}}
    \cup
    {[value |-> v, t_l |-> lo, t_h |-> hi] :
        v \in (LowerYear - 1)..(LowerYear + MaxSpan + 1),
        lo \in LowerYear..(LowerYear + MaxSpan),
        hi \in LowerYear..(LowerYear + MaxSpan)}

SwitchpointInit ==
    /\ KernelInit
    /\ stage = "start"
    /\ arr = None
    /\ raised = "none"
    /\ norm10 = None
    /\ mask = None
    /\ args \in SwitchpointInputs
    /\ ret = None

\* the log-probability of the value given the parents, in both forms
SwitchpointLogp ==
    /\ stage = "start"
    /\ ret' = [decorator |-> switchpoint(args.value, args.t_l, args.t_h),
               direct |-> switchpoint_logp(args.value, args.t_l, args.t_h)]
    /\ stage' = "called"
    /\ UNCHANGED <<arr, raised, norm10, mask, args>>
    /\ UNCHANGED kvars

SwitchpointNext == SwitchpointLogp

SpecSwitchpoint == SwitchpointInit /\ [][SwitchpointNext]_vars

(***************************************************************************)
(* C6.  Both forms of the switchpoint log-probability agree and are the    *)
(* discrete uniform on [t_l, t_h]: -inf for a value below t_l or above     *)
(* t_h, and -log(t_h - t_l + 1) for every value in between, where          *)
(* t_h - t_l + 1 is the number of integers with finite log-probability     *)
(* (when t_l <= t_h).                                                      *)
(***************************************************************************)
C6_DiscreteUniform ==
    stage = "called" =>
       /\ ret.decorator = ret.direct
       /\ (args.value < args.t_l \/ args.value > args.t_h) => ret.direct = NegInf
       /\ (args.t_l <= args.value /\ args.value <= args.t_h) =>
             ret.direct = [kind |-> "-log", of |-> args.t_h - args.t_l + 1]
       /\ args.t_l <= args.t_h =>
             /\ Cardinality({v \in (args.t_l - 1)..(args.t_h + 1) :
                    switchpoint_logp(v, args.t_l, args.t_h).kind # "-inf"})
                = args.t_h - args.t_l + 1
             /\ Cardinality({v \in (args.t_l - 1)..(args.t_h + 1) :
                    switchpoint(v, args.t_l, args.t_h).kind # "-inf"})
                = args.t_h - args.t_l + 1

\* the initial value 1900 under the notebook's parents: -log(112)
C6_Witness ==
    /\ stage = "called"
    /\ args = [value |-> 1900, t_l |-> 1851, t_h |-> 1962]
    /\ ret.direct = [kind |-> "-log", of |-> 112]
    /\ ret.decorator = ret.direct


(***************************************************************************)
(* The deterministic variable rate (PyMC notebook, lines 246-252).         *)
(***************************************************************************)
\* np.empty(n): an array whose elements are whatever the memory held
Empty(n, memory) == NdArray("float64", <<n>>, [k \in 1..n |-> memory[k]])

\* a slice bound of a sequence of length n: a negative bound counts from
\* the end, and the bound is clipped to 0..n
SliceBound(s, n) ==
    IF s < 0 THEN Max(s + n, 0) ELSE Min(s, n)

\* a[:s] = v
SetUpTo(a, s, v) ==
    [a EXCEPT !.data = [k \in 1..Size(a) |->
                           IF k <= SliceBound(s, Size(a)) THEN v ELSE a.data[k]]]

\* a[s:] = v
SetFrom(a, s, v) ==
    [a EXCEPT !.data = [k \in 1..Size(a) |->
                           IF k > SliceBound(s, Size(a)) THEN v ELSE a.data[k]]]

\* n is len(disaster_model.disasters_array)
rateMutGap(s, e, l, n, memory) ==
    SetFrom(SetUpTo(Empty(n, memory), s, e), s + 1, l)

rate(s, e, l, n, memory) ==
    LET out0 == Empty(n, memory)          \* line 249
        out1 == SetUpTo(out0, s, e)       \* line 250: out[:s] = e
        out2 == SetFrom(out1, s, l)       \* line 251: out[s:] = l
    IN  out2                              \* line 252

MaxYears == 3

\* values of the means, and what uninitialised memory may hold
Means == {<<1, 1>>, <<3, 2>>}

Garbage == {<<0, 1>>, <<7, 1>>}

RateInit ==
    /\ KernelInit
    /\ stage = "start"
    /\ arr = None
    /\ raised = "none"
    /\ norm10 = None
    /\ mask = None
    /\ \E n \in 1..MaxYears :
          \E s \in (0 - 1)..(n + 1), e \in Means, l \in Means, memory \in [1..n -> Garbage] :
              args = [s |-> s, e |-> e, l |-> l, n |-> n, memory |-> memory]
    /\ ret = None

\* rate.value given the values of its parents
RateValue ==
    /\ stage = "start"
    /\ ret' = rate(args.s, args.e, args.l, args.n, args.memory)
    /\ stage' = "called"
    /\ UNCHANGED <<arr, raised, norm10, mask, args>>
    /\ UNCHANGED kvars

RateNext == RateValue

SpecRate == RateInit /\ [][RateNext]_vars

(***************************************************************************)
(* C7.  For a switchpoint s with 0 <= s <= n the value of rate has length  *)
(* n, its first s entries are early_mean and its other n - s entries are   *)
(* late_mean; the value depends on the parents alone, whatever the memory  *)
(* np.empty returned.                                                      *)
(***************************************************************************)
C7_RateFromParents ==
    (stage = "called" /\ 0 <= args.s /\ args.s <= args.n) =>
       /\ ret.shape = <<args.n>>
       /\ Size(ret) = args.n
       /\ \A k \in 1..args.n :
             ret.data[k] = IF k <= args.s THEN args.e ELSE args.l
       /\ \A memory \in [1..args.n -> Garbage] :
             rate(args.s, args.e, args.l, args.n, memory) = ret

\* a switchpoint strictly inside the years, different means, memory that
\* held neither mean
C7_Witness ==
    /\ stage = "called"
    /\ args.n = 3
    /\ args.s = 1
    /\ args.e = <<1, 1>>
    /\ args.l = <<3, 2>>
    /\ args.memory = <<<<7, 1>>, <<7, 1>>, <<7, 1>>>>
    /\ ret.data = <<<<1, 1>>, <<3, 2>>, <<3, 2>>>>


(***************************************************************************)
(* The potential rate_constraint (PyMC notebook, lines 500-504 and         *)
(* 529-532).  The means are fractions <<num, den>>.                        *)
(***************************************************************************)
Abs(x) == IF x < 0 THEN 0 - x ELSE x

\* x - y and |x| for fractions
FracSub(x, y) == <<x[1] * y[2] - y[1] * x[2], x[2] * y[2]>>

FracAbs(x) == <<Abs(x[1]), x[2]>>

\* lines 500-504: the function decorated with @pm.potential
rate_constraint(l1, l2) ==
    IF Greater(FracAbs(FracSub(l2, l1)), <<1, 1>>)     \* line 502: np.abs(l2 - l1) > 1
    THEN NegInf                                        \* line 503
    ELSE Zero                                          \* line 504

\* lines 529-532: the function passed to pm.Potential(logp = ...)
rate_constraint_logp(l1, l2) ==
    IF Greater(FracAbs(FracSub(l2, l1)), <<1, 1>>)     \* line 530
    THEN NegInf                                        \* line 531
    ELSE Zero                                          \* line 532

MaxHalves == 8

\* means 0, 1/2, 1, ..., MaxHalves/2
HalfMeans == {<<k, 2>> : k \in 0..MaxHalves}

ConstraintInit ==
    /\ KernelInit
    /\ stage = "start"
    /\ arr = None
    /\ raised = "none"
    /\ norm10 = None
    /\ mask = None
    /\ \E l1 \in HalfMeans, l2 \in HalfMeans : args = [l1 |-> l1, l2 |-> l2]
    /\ ret = None

\* the log-probability of the potential given its parents, in both forms
ConstraintLogp ==
    /\ stage = "start"
    /\ ret' = [decorator |-> rate_constraint(args.l1, args.l2),
               direct |-> rate_constraint_logp(args.l1, args.l2)]
    /\ stage' = "called"
    /\ UNCHANGED <<arr, raised, norm10, mask, args>>
    /\ UNCHANGED kvars

ConstraintNext == ConstraintLogp

SpecConstraint == ConstraintInit /\ [][ConstraintNext]_vars

(***************************************************************************)
(* C8.  The potential is the indicator of |l2 - l1| < 1: both forms return *)
(* 0 exactly when the means differ by less than 1, and -inf otherwise.     *)
(***************************************************************************)
C8_IndicatorLessThanOne ==
    stage = "called" =>
       LET less == Abs(args.l2[1] * args.l1[2] - args.l1[1] * args.l2[2])
                      < args.l1[2] * args.l2[2]
       IN  /\ (ret.decorator = Zero) <=> less
           /\ (ret.decorator = NegInf) <=> ~less
           /\ (ret.direct = Zero) <=> less
           /\ (ret.direct = NegInf) <=> ~less


(***************************************************************************)
(* Reductions along an axis (NumPy notebook, lines 540-756).               *)
(***************************************************************************)
\* np.array of a list of equally long lists of Python ints
IntArray2(rows) ==
    NdArray("int64", <<Len(rows), Len(rows[1])>>,
            [k \in 1..(Len(rows) * Len(rows[1])) |->
                rows[((k - 1) \div Len(rows[1])) + 1][((k - 1) % Len(rows[1])) + 1]])

\* np.zeros(shape): float64 zeros
Zeros(shape) == NdArray("float64", shape, [k \in 1..Prod(shape) |-> <<0, 1>>])

\* lines 540-541
samples_list == << <<632, 1638, 569, 115>>, <<433, 1130, 754, 555>> >>

samples_array == IntArray2(samples_list)

\* addition of two elements of a dtype
ElemZero(dtype) == IF dtype = "int64" THEN 0 ELSE <<0, 1>>

ElemAdd(dtype, x, y) ==
    IF dtype = "int64" THEN x + y ELSE <<x[1] * y[2] + y[1] * x[2], x[2] * y[2]>>

\* a.sum(): the sum of the elements at positions lo..hi of the row-major
\* order, added pairwise
RECURSIVE SumRange(_, _, _)
SumRange(a, lo, hi) ==
    IF lo > hi THEN ElemZero(a.dtype)
    ELSE IF lo = hi THEN a.data[lo]
    ELSE ElemAdd(a.dtype, SumRange(a, lo, (lo + hi) \div 2),
                          SumRange(a, ((lo + hi) \div 2) + 1, hi))

SumAll(a) == SumRange(a, 1, Size(a))

\* shape s without its dimension ax (ax counted from 0)
DropDim(s, ax) == SubSeq(s, 1, ax) \o SubSeq(s, ax + 2, Len(s))

\* sum of the elements at offsets start, start + step, ... (count of them)
RECURSIVE SumStrided(_, _, _, _)
SumStrided(a, start, step, count) ==
    IF count = 0 THEN ElemZero(a.dtype)
    ELSE ElemAdd(a.dtype, a.data[start + 1], SumStrided(a, start + step, step, count - 1))

\* a.sum(axis=ax): the dimension ax is consumed; the element of the result
\* at row-major offset k sums the elements of a that differ from it only
\* in their index along ax
SumAxisMutFromEnd(a, ax) ==
    LET x == Len(a.shape) - 1 - ax
    IN  IF x < 0 \/ x >= Len(a.shape) THEN [err |-> "AxisError", value |-> None]
        ELSE [err |-> "none",
              value |-> NdArray(a.dtype, DropDim(a.shape, x),
                  [k \in 1..Prod(DropDim(a.shape, x)) |->
                      SumStrided(a,
                          ((k - 1) \div Stride(a.shape, x + 1)) * Stride(a.shape, x)
                              + ((k - 1) % Stride(a.shape, x + 1)),
                          Stride(a.shape, x + 1), a.shape[x + 1])])]

SumAxis(a, ax) ==
    IF ax < 0 \/ ax >= Len(a.shape) THEN [err |-> "AxisError", value |-> None]
    ELSE [err |-> "none",
          value |-> NdArray(a.dtype, DropDim(a.shape, ax),
              [k \in 1..Prod(DropDim(a.shape, ax)) |->
                  SumStrided(a,
                      ((k - 1) \div Stride(a.shape, ax + 1)) * Stride(a.shape, ax)
                          + ((k - 1) % Stride(a.shape, ax + 1)),
                      Stride(a.shape, ax + 1), a.shape[ax + 1])])]

MaxSumRank == 3

SumShapes == UNION {[1..r -> 1..MaxDim] : r \in 1..MaxSumRank}

\* the reductions of the notebook (lines 725, 736, 756) and the reduction
\* of an integer array of every shape along every axis it has or just lacks
SumInputs ==
    { [a |-> samples_array, axis |-> 0],
      [a |-> samples_array, axis |-> 1],
      [a |-> Zeros(<<3, 4, 5, 6>>), axis |-> 2] }
    \cup
    UNION { {[a |-> Filled(s, 0), axis |-> ax] : ax \in 0..Len(s)} : s \in SumShapes }

SumInit ==
    /\ KernelInit
    /\ stage = "start"
    /\ arr = None
    /\ raised = "none"
    /\ norm10 = None
    /\ mask = None
    /\ args \in SumInputs
    /\ ret = None

\* a.sum(axis)
SumCall ==
    /\ stage = "start"
    /\ ret' = SumAxis(args.a, args.axis).value
    /\ raised' = SumAxis(args.a, args.axis).err
    /\ stage' = "summed"
    /\ UNCHANGED <<arr, norm10, mask, args>>
    /\ UNCHANGED kvars

SumNext == SumCall

SpecSum == SumInit /\ [][SumNext]_vars

(***************************************************************************)
(* C11.  A reduction along an axis consumes exactly that dimension: the    *)
(* result has the other dimensions in their order, and its entries add up  *)
(* to the sum of all elements.  A (3,4,5,6) array summed along axis 2 has  *)
(* shape (3,4,6); samples_array.sum(axis=0) has 4 entries, one per column, *)
(* sum(axis=1) has 2 entries, one per row, and either adds up to           *)
(* samples_array.sum().                                                    *)
(***************************************************************************)
C11_AxisConsumed ==
    (stage = "summed" /\ args.axis < Len(args.a.shape)) =>
       /\ raised = "none"
       /\ Len(ret.shape) = Len(args.a.shape) - 1
       /\ \A i \in 1..Len(ret.shape) :
             ret.shape[i] = IF i <= args.axis THEN args.a.shape[i] ELSE args.a.shape[i + 1]
       /\ Size(ret) = Prod(ret.shape)
       /\ Size(ret) * args.a.shape[args.axis + 1] = Size(args.a)
       /\ SumAll(ret) = SumAll(args.a)
       /\ (Len(args.a.shape) = 2 /\ args.axis = 0) =>
             \A j \in 0..(args.a.shape[2] - 1) :
                 Item1(ret, j) = SumAll(NdArray("int64", <<args.a.shape[1]>>,
                                    [i \in 1..args.a.shape[1] |-> Item2(args.a, i - 1, j)]))
       /\ (Len(args.a.shape) = 2 /\ args.axis = 1) =>
             \A i \in 0..(args.a.shape[1] - 1) :
                 Item1(ret, i) = SumAll(NdArray("int64", <<args.a.shape[2]>>,
                                    [j \in 1..args.a.shape[2] |-> Item2(args.a, i, j - 1)]))
       /\ args.a.shape = <<3, 4, 5, 6>> /\ args.axis = 2 => ret.shape = <<3, 4, 6>>
       /\ args.a = samples_array /\ args.axis = 0 =>
             ret.shape = <<4>> /\ ret.data = <<1065, 2768, 1323, 670>>
       /\ args.a = samples_array /\ args.axis = 1 =>
             ret.shape = <<2>> /\ ret.data = <<2954, 2872>>

C11_Witness ==
    /\ stage = "summed"
    /\ args.a = samples_array
    /\ args.axis = 0
    /\ Size(ret) = 4
    /\ SumAll(ret) = 5826

(***************************************************************************)
(* Text files: np.savetxt and np.loadtxt.                                  *)
(*                                                                         *)
(* A text file is a sequence of lines.  A line carries the comment prefix  *)
(* it starts with ("" for none), free text, and the number fields that     *)
(* follow.  A number field written with '%.2e' is a sign, three decimal    *)
(* digits d.dd kept as the integer ddd, and a decimal exponent.            *)
(***************************************************************************)
RECURSIVE Pow10(_)
Pow10(n) == IF n = 0 THEN 1 ELSE 10 * Pow10(n - 1)

\* The decimal exponent of a positive integer: the largest e with 10^e <= v.
RECURSIVE Exp10(_)
Exp10(v) == IF v < 10 THEN 0 ELSE 1 + Exp10(v \div 10)

\* Round half to even of v / q.
RoundHalfEven(v, q) ==
    LET m == v \div q
        r == v % q
    IN  IF 2 * r > q \/ (2 * r = q /\ m % 2 = 1) THEN m + 1 ELSE m

\* '%.2e' % v for an integer v: three significant digits.
FormatE2(v) ==
    LET a == Abs(v)
        e == Exp10(a)
        m == IF e <= 2 THEN a * Pow10(2 - e) ELSE RoundHalfEven(a, Pow10(e - 2))
    IN  IF a = 0 THEN [neg |-> FALSE, mant |-> 0, exp |-> 0]
        ELSE IF m = 1000 THEN [neg |-> v < 0, mant |-> 100, exp |-> e + 1]
        ELSE [neg |-> v < 0, mant |-> m, exp |-> e]

\* float(field): the value the field denotes, as a fraction.
ParseFloat(t) ==
    LET s == IF t.neg THEN 0 - 1 ELSE 1
    IN  IF t.exp >= 2 THEN <<s * t.mant * Pow10(t.exp - 2), 1>>
        ELSE <<s * t.mant, Pow10(2 - t.exp)>>

CommentPrefix == "# "

HeaderLine(header) == [prefix |-> CommentPrefix, text |-> header, fields |-> << >>]

DataLine(fields) == [prefix |-> "", text |-> "", fields |-> fields]

IsComment(line) == line.prefix = CommentPrefix

\* The header written as a line of data: what loadtxt then has to parse.
SaveTxtMutBareHeader(a, header) ==
    LET rank == Len(a.shape)
        rows == a.shape[1]
        cols == IF rank = 2 THEN a.shape[2] ELSE 1
        body == [i \in 1..rows |->
                    DataLine([j \in 1..cols |-> FormatE2(a.data[(i - 1) * cols + j])])]
        head == IF header = "" THEN << >>
                ELSE <<[prefix |-> "", text |-> header, fields |-> << >>]>>
    IN  IF rank = 0 \/ rank > 2
        THEN [err |-> "ValueError", file |-> None]
        ELSE [err |-> "none", file |-> head \o body]

\* np.savetxt(fname, a, fmt='%.2e', header=header): one line per row; a 1-D
\* array is written as a column; the header, if any, goes first as a comment.
SaveTxt(a, header) ==
    LET rank == Len(a.shape)
        rows == a.shape[1]
        cols == IF rank = 2 THEN a.shape[2] ELSE 1
        body == [i \in 1..rows |->
                    DataLine([j \in 1..cols |-> FormatE2(a.data[(i - 1) * cols + j])])]
        head == IF header = "" THEN << >> ELSE <<HeaderLine(header)>>
    IN  IF rank = 0 \/ rank > 2
        THEN [err |-> "ValueError", file |-> None]
        ELSE [err |-> "none", file |-> head \o body]

RECURSIVE DataLines(_)
DataLines(file) ==
    IF file = << >> THEN << >>
    ELSE IF IsComment(Head(file)) THEN DataLines(Tail(file))
    ELSE <<Head(file)>> \o DataLines(Tail(file))

\* np.loadtxt(fname): comment lines are skipped, every other line is a row
\* of floats, all rows have the same number of columns, and axes of length
\* one are squeezed out of the result.
LoadTxt(file) ==
    LET lines == DataLines(file)
        rows  == Len(lines)
        cols  == Len(lines[1].fields)
        shape == IF rows = 1 /\ cols = 1 THEN << >>
                 ELSE IF rows = 1 THEN <<cols>>
                 ELSE IF cols = 1 THEN <<rows>>
                 ELSE <<rows, cols>>
    IN  IF \E i \in 1..rows : lines[i].text # ""
        THEN [err |-> "ValueError", value |-> None]
        ELSE IF rows = 0
        THEN [err |-> "none", value |-> NdArray("float64", <<0>>, << >>)]
        ELSE IF \E i \in 1..rows : Len(lines[i].fields) # cols
        THEN [err |-> "ValueError", value |-> None]
        ELSE [err |-> "none",
              value |-> NdArray("float64", shape,
                  [k \in 1..(rows * cols) |->
                      ParseFloat(lines[((k - 1) \div cols) + 1].fields[((k - 1) % cols) + 1])])]

\* arr = np.arange(10).reshape(2, 5)
arr_saved == Reshape(Arange(10), <<2, 5>>).value

\* arr2 = np.loadtxt('test.out')
arr2 == LoadTxt(SaveTxt(arr_saved, "My dataset").file).value

MaxRows == 2

Multipliers == {1, 7, 101, 1005}

Scaled(a, m) == NdArray(a.dtype, a.shape, [i \in 1..Len(a.data) |-> a.data[i] * m])

\* Integer arrays of rank 1, 2 and 3, the notebook's arr among them.
TextArrays ==
    {Scaled(Reshape(Arange(r * k), <<r, k>>).value, m) :
        r \in 1..MaxRows, k \in 1..MaxSide, m \in Multipliers}
    \cup {Scaled(Arange(k), m) : k \in 1..MaxSide, m \in Multipliers}
    \cup {Reshape(Arange(8), <<2, 2, 2>>).value}

TextInit ==
    /\ KernelInit
    /\ stage = "start"
    /\ arr = None
    /\ raised = "none"
    /\ norm10 = None
    /\ mask = None
    /\ \E a \in TextArrays, h \in {"My dataset", ""} : args = [a |-> a, header |-> h]
    /\ ret = None

\* np.savetxt('test.out', arr, fmt='%.2e', header="My dataset")
TextSave ==
    /\ stage = "start"
    /\ LET w == SaveTxt(args.a, args.header)
       IN  /\ raised' = w.err
           /\ disk' = IF w.err = "none" THEN ("test.out" :> w.file) @@ disk ELSE disk
           /\ files' = IF w.err = "none" THEN files \cup {"test.out"} ELSE files
    /\ stage' = "saved"
    /\ UNCHANGED <<arr, norm10, mask, args, ret>>
    /\ UNCHANGED <<pc, ns, err>>

\* arr2 = np.loadtxt('test.out')
TextLoad ==
    /\ stage = "saved"
    /\ raised = "none"
    /\ "test.out" \in files
    /\ LET r == LoadTxt(disk["test.out"])
       IN  /\ raised' = r.err
           /\ ret' = r.value
    /\ stage' = "loaded"
    /\ UNCHANGED <<arr, norm10, mask, args>>
    /\ UNCHANGED kvars

TextNext == TextSave \/ TextLoad

SpecText == TextInit /\ [][TextNext]_vars

FracEq(x, v) == x[1] = v * x[2]

(***************************************************************************)
(* C12.  Writing the 2x5 integer array arr with '%.2e' and a header and    *)
(* reading the file back is a round trip for this data: the array read has *)
(* shape (2,5), the header line is not read as data, and every element     *)
(* equals the one written.  The same holds for every 2-D array with at     *)
(* least two rows and two columns whose elements have at most three        *)
(* significant digits; any element comes back rounded to three             *)
(* significant digits.                                                     *)
(***************************************************************************)
C12_TextRoundTrip ==
    (stage = "loaded") =>
       /\ raised = "none"
       /\ ret.dtype = "float64"
       /\ Size(ret) = Size(args.a)
       /\ \A k \in 1..Size(ret) :
             LET v == args.a.data[k]
                 d == FracSub(ret.data[k], <<v, 1>>)
             IN  /\ v < 1000 => FracEq(ret.data[k], v)
                 /\ v >= 1000 => 2 * Abs(d[1]) <= d[2] * Pow10(Exp10(v) - 2)
       /\ (Len(args.a.shape) = 2 /\ args.a.shape[1] >= 2 /\ args.a.shape[2] >= 2) =>
             ret.shape = args.a.shape
       /\ args.a = arr_saved =>
             /\ ret.shape = <<2, 5>>
             /\ \A i \in 0..1, j \in 0..4 : FracEq(Item2(ret, i, j), Item2(args.a, i, j))

C12_Witness ==
    /\ stage = "loaded"
    /\ args.a = arr_saved
    /\ args.header = "My dataset"
    /\ Len(disk["test.out"]) = 3
    /\ IsComment(disk["test.out"][1])
    /\ ret = arr2
    /\ ret.shape = <<2, 5>>

(***************************************************************************)
(* Binary files: np.save, np.savez and np.load.                            *)
(*                                                                         *)
(* An .npy file is a header (the dtype descriptor, the order flag and the  *)
(* shape) followed by the elements as they are in memory, in row-major     *)
(* order.  An .npz file is an archive of .npy members, one per key.  A     *)
(* float with denominator 0 is not finite: <<0, 0>> is nan, <<1, 0>> is    *)
(* inf.                                                                    *)
(***************************************************************************)
Descr(dtype) == IF dtype = "int64" THEN "<i8" ELSE "<f8"

DtypeOf(descr) == IF descr = "<i8" THEN "int64" ELSE "float64"

\* np.save(fname, a)
Save(a) ==
    [kind |-> "npy", descr |-> Descr(a.dtype), fortran_order |-> FALSE,
     shape |-> a.shape, payload |-> a.data]

\* The shape of the header ignored: the elements come back flat.
LoadNpyMutFlat(f) == NdArray(DtypeOf(f.descr), <<Len(f.payload)>>, f.payload)

\* np.load(fname) of an .npy file
LoadNpy(f) == NdArray(DtypeOf(f.descr), f.shape, f.payload)

\* 'arr_%d' % i
PosKey(i) == "arr_" \o ToString(i)

PosKeys(n) == {PosKey(i - 1) : i \in 1..n}

\* Positional arrays named from 1.
SavezMutOneBased(pos, kwds) ==
    LET keys == {PosKey(i) : i \in 1..Len(pos)}
    IN  [err |-> "none",
         file |-> [kind |-> "npz",
                   members |-> [k \in DOMAIN kwds \cup keys |->
                       IF k \in DOMAIN kwds THEN Save(kwds[k])
                       ELSE Save(pos[CHOOSE i \in 1..Len(pos) : PosKey(i) = k])]]]

\* np.savez(fname, *pos, **kwds): the keyword arrays under their names, the
\* positional ones under arr_0, arr_1, ...; a keyword may not take one of
\* those names.
Savez(pos, kwds) ==
    LET keys == PosKeys(Len(pos))
    IN  IF DOMAIN kwds \cap keys # {}
        THEN [err |-> "ValueError", file |-> None]
        ELSE [err |-> "none",
              file |-> [kind |-> "npz",
                        members |-> [k \in DOMAIN kwds \cup keys |->
                            IF k \in DOMAIN kwds THEN Save(kwds[k])
                            ELSE Save(pos[CHOOSE i \in 1..Len(pos) : PosKey(i - 1) = k])]]]

\* np.load(fname) of an .npz file: the keys, and the array under each
LoadNpz(f) ==
    [files |-> DOMAIN f.members, f |-> [k \in DOMAIN f.members |-> LoadNpy(f.members[k])]]

\* np.load(fname)
Load(f) == IF f.kind = "npy" THEN LoadNpy(f) ELSE LoadNpz(f)

ElemSub(dtype, x, y) == IF dtype = "int64" THEN x - y ELSE FracSub(x, y)

\* bool(x): zero is false, everything else (nan too) is true
Truthy(dtype, x) == IF dtype = "int64" THEN x # 0 ELSE ~(x[1] = 0 /\ x[2] # 0)

\* a - b for two arrays of one dtype
Sub(a, b) ==
    IF ~Compatible(a.shape, b.shape)
    THEN [err |-> "ValueError", value |-> None]
    ELSE [err |-> "none",
          value |-> NdArray(a.dtype, BroadcastShape(a.shape, b.shape),
                       [k \in 1..Prod(BroadcastShape(a.shape, b.shape)) |->
                           ElemSub(a.dtype,
                               BroadcastTo(a, BroadcastShape(a.shape, b.shape))[k],
                               BroadcastTo(b, BroadcastShape(a.shape, b.shape))[k])])]

\* np.any(a)
NpAny(a) == \E k \in 1..Size(a) : Truthy(a.dtype, a.data[k])

AllFinite(a) == a.dtype = "int64" \/ \A k \in 1..Size(a) : a.data[k][2] # 0

\* Float arrays: what loadtxt reads, the notebook's arr2 among them, and
\* arrays holding nan and inf.
FloatArrays ==
    {LoadTxt(SaveTxt(a, "My dataset").file).value : a \in {x \in TextArrays : Len(x.shape) <= 2}}
    \cup {NdArray("float64", <<2>>, <<<<1, 2>>, <<0, 0>>>>),
          NdArray("float64", <<2>>, <<<<1, 0>>, <<3, 1>>>>)}

IntArrays == {arr_saved} \cup {Arange(k) : k \in 1..MaxSide}

\* Further positional arguments, for archives of more than two arrays.
MoreArrays == {<< >>, <<arr_saved>>, <<c, arr_saved>>}

BinaryInit ==
    /\ KernelInit
    /\ stage = "start"
    /\ arr = None
    /\ raised = "none"
    /\ norm10 = None
    /\ mask = None
    /\ \E a \in IntArrays, a2 \in FloatArrays, m \in MoreArrays :
          args = [arr |-> a, arr2 |-> a2, more |-> m]
    /\ ret = None

\* np.save('test.npy', arr2)
BinarySave ==
    /\ stage = "start"
    /\ disk' = ("test.npy" :> Save(args.arr2)) @@ disk
    /\ files' = files \cup {"test.npy"}
    /\ stage' = "saved"
    /\ UNCHANGED <<arr, raised, norm10, mask, args, ret>>
    /\ UNCHANGED <<pc, ns, err>>

\* arr2n = np.load('test.npy')
BinaryLoad ==
    /\ stage = "saved"
    /\ "test.npy" \in files
    /\ ret' = [arr2n |-> Load(disk["test.npy"])]
    /\ stage' = "loaded"
    /\ UNCHANGED <<arr, raised, norm10, mask, args>>
    /\ UNCHANGED kvars

\* np.any(arr2 - arr2n)
BinaryCompare ==
    /\ stage = "loaded"
    /\ LET d == Sub(args.arr2, ret.arr2n)
       IN  /\ raised' = d.err
           /\ ret' = [arr2n |-> ret.arr2n,
                      any |-> IF d.err = "none" THEN NpAny(d.value) ELSE None]
    /\ stage' = "compared"
    /\ UNCHANGED <<arr, norm10, mask, args>>
    /\ UNCHANGED kvars

\* np.savez('test.npz', arr, arr2); arrays = np.load('test.npz'); arrays.files
BinarySavez ==
    /\ stage = "compared"
    /\ raised = "none"
    /\ LET w == Savez(<<args.arr, args.arr2>> \o args.more, << >>)
       IN  /\ raised' = w.err
           /\ disk' = ("test.npz" :> w.file) @@ disk
           /\ files' = files \cup {"test.npz"}
           /\ ret' = [arr2n |-> ret.arr2n, any |-> ret.any, arrays |-> Load(w.file)]
    /\ stage' = "archived"
    /\ UNCHANGED <<arr, norm10, mask, args>>
    /\ UNCHANGED <<pc, ns, err>>

\* np.savez('test.npz', foo=arr, bar=arr2); arrays = np.load('test.npz')
BinarySavezNamed ==
    /\ stage = "archived"
    /\ raised = "none"
    /\ LET w == Savez(<< >>, [k \in {"foo", "bar"} |->
                                 IF k = "foo" THEN args.arr ELSE args.arr2])
       IN  /\ raised' = w.err
           /\ disk' = ("test.npz" :> w.file) @@ disk
           /\ ret' = [arr2n |-> ret.arr2n, any |-> ret.any, arrays |-> Load(w.file)]
    /\ stage' = "named"
    /\ UNCHANGED <<arr, norm10, mask, args>>
    /\ UNCHANGED <<pc, ns, err, files>>

BinaryNext ==
    \/ BinarySave
    \/ BinaryLoad
    \/ BinaryCompare
    \/ BinarySavez
    \/ BinarySavezNamed

SpecBinary == BinaryInit /\ [][BinaryNext]_vars

C14_PositionalNames ==
    stage = "archived" =>
       LET pos == <<args.arr, args.arr2>> \o args.more
       IN  /\ raised = "none"
           /\ ret.arrays.files = PosKeys(Len(pos))
           /\ Cardinality(ret.arrays.files) = Len(pos)
           /\ \A i \in 1..Len(pos) : ret.arrays.f[PosKey(i - 1)] = pos[i]
           /\ ret.arrays.f["arr_0"] = args.arr
           /\ ret.arrays.f["arr_1"] = args.arr2
           /\ args.more = << >> => ret.arrays.files = {"arr_0", "arr_1"}

C14_Witness ==
    /\ stage = "archived"
    /\ args.arr = arr_saved
    /\ args.arr2 = arr2
    /\ args.more = << >>
    /\ ret.arrays.files = {"arr_0", "arr_1"}
    /\ ret.arrays.f["arr_0"] = arr_saved
    /\ ret.arrays.f["arr_1"] = arr2

(***************************************************************************)
(* MCMC.sample(iter, burn, thin): the sampling loop.                       *)
(*                                                                         *)
(* The loop runs iter iterations.  Every iteration lets the step methods   *)
(* update the variables and then, if it is past the burn-in and on the     *)
(* thinning grid, tallies: the current value of every traced variable is   *)
(* appended to its trace.  All traces grow together, so one sequence       *)
(* stands for them; a sample is recorded as the number of the iteration    *)
(* that produced it, counted from 1.                                       *)
(***************************************************************************)
\* A tally in every iteration on the thinning grid, burn-in or not.
TalliesMutDuringBurn(i, burn, thin) == i % thin = 0

\* Whether the iteration with index i (from 0) tallies.
Tallies(i, burn, thin) == i % thin = 0 /\ i >= burn

\* M.sample(10000, burn=5000)
NotebookCall == [iter |-> 10000, burn |-> 5000, thin |-> 1]

MaxIter == 8

MaxThin == 3

SampleCalls ==
    {NotebookCall} \cup [iter : 0..MaxIter, burn : 0..MaxIter, thin : 1..MaxThin]

SampleInit ==
    /\ KernelInit
    /\ stage = "start"
    /\ arr = None
    /\ raised = "none"
    /\ norm10 = None
    /\ mask = None
    /\ args \in SampleCalls
    /\ ret = None

\* The call: the arguments are checked and the traces start empty.
SampleBegin ==
    /\ stage = "start"
    /\ IF args.burn > args.iter
       THEN /\ raised' = "ValueError"
            /\ stage' = "done"
            /\ ret' = [i |-> 0, trace |-> << >>]
       ELSE /\ raised' = "none"
            /\ stage' = "sampling"
            /\ ret' = [i |-> 0, trace |-> << >>]
    /\ UNCHANGED <<arr, norm10, mask, args>>
    /\ UNCHANGED kvars

\* One iteration of the loop: step, then tally if this iteration tallies.
SampleIterate ==
    /\ stage = "sampling"
    /\ ret.i < args.iter
    /\ ret' = [i |-> ret.i + 1,
               trace |-> IF Tallies(ret.i, args.burn, args.thin)
                         THEN Append(ret.trace, ret.i + 1)
                         ELSE ret.trace]
    /\ UNCHANGED <<stage, arr, raised, norm10, mask, args>>
    /\ UNCHANGED kvars

\* The loop is over: sample() returns.
SampleEnd ==
    /\ stage = "sampling"
    /\ ret.i = args.iter
    /\ stage' = "done"
    /\ UNCHANGED <<arr, raised, norm10, mask, args, ret>>
    /\ UNCHANGED kvars

SampleNext == SampleBegin \/ SampleIterate \/ SampleEnd

SpecSample == SampleInit /\ [][SampleNext]_vars

(***************************************************************************)
(* C15.  sample(iter, burn, thin) tallies nothing during the first burn    *)
(* iterations and, after them, once every thin iterations: every sample of *)
(* a trace comes from an iteration after the burn-th, consecutive samples  *)
(* are thin iterations apart, and the first comes within thin iterations   *)
(* of the end of the burn-in.  While the loop runs this is stated of the   *)
(* newest sample, and of the whole trace once sample() has returned.  With *)
(* thin = 1 the finished trace holds iter - burn samples; for              *)
(* M.sample(10000, burn=5000) it holds exactly 5000, those of iterations   *)
(* 5001 to 10000.                                                          *)
(***************************************************************************)
C15_BurnThin ==
    (stage \in {"sampling", "done"} /\ raised = "none") =>
       LET tr == ret.trace
           n  == Len(ret.trace)
       IN  /\ ret.i <= args.burn => n = 0
           /\ n > 0 => tr[n] > args.burn /\ tr[n] <= ret.i /\ tr[1] <= args.burn + args.thin
           /\ n > 1 => tr[n] - tr[n - 1] = args.thin
           /\ ret.i >= args.burn + args.thin => n > 0 /\ ret.i - tr[n] < args.thin
           /\ stage = "done" =>
                 /\ \A k \in 1..n : tr[k] > args.burn /\ tr[k] <= args.iter
                 /\ \A k \in 1..(n - 1) : tr[k + 1] - tr[k] = args.thin
                 /\ args.thin = 1 => n = args.iter - args.burn
                 /\ args = NotebookCall => n = 5000 /\ tr[1] = 5001 /\ tr[n] = 10000

C15_Witness ==
    /\ stage = "sampling"
    /\ args = NotebookCall
    /\ ret.i = 5002
    /\ ret.trace = <<5001, 5002>>

(***************************************************************************)
(* Independence of the two notebooks.                                      *)
(*                                                                         *)
(* Each notebook has a kernel, and so a namespace, of its own; what the    *)
(* two share is the working directory.  Alone(nb, k) is the notebook run   *)
(* by itself, in an empty directory, up to its k-th cell.                  *)
(***************************************************************************)
\* The states a notebook goes through alone: the k-th is the one before its
\* k-th cell.
RECURSIVE Trail(_, _)
Trail(nb, sofar) ==
    LET k == Len(sofar)
    IN  IF k = Len(Cells(nb)) + 1 THEN sofar
        ELSE Trail(nb, Append(sofar,
                 RunStmts(nb, Cells(nb)[k], 1, sofar[k].ns, sofar[k].files)))

AloneTrail ==
    [nb \in Notebooks |-> Trail(nb, <<[ns |-> {}, files |-> {}, err |-> "none"]>>)]

Alone(nb, k) == AloneTrail[nb][k]

Other(nb) == CHOOSE o \in Notebooks : o # nb

\* the files the statements of a cell read
CellReads(stmts) == UNION {stmts[k].fread : k \in 1..Len(stmts)}

\* the files the statements of a cell write
CellWrites(stmts) == UNION {stmts[k].fwrite : k \in 1..Len(stmts)}

\* the files a notebook writes anywhere
Writes(nb) == UNION {CellWrites(Cells(nb)[i]) : i \in 1..Len(Cells(nb))}

\* the names a notebook binds anywhere
Binds(nb) ==
    UNION {UNION {Cells(nb)[i][k].binds : k \in 1..Len(Cells(nb)[i])} :
              i \in 1..Len(Cells(nb))}

\* the names a cell reads
CellNames(stmts) == UNION {stmts[k].reads : k \in 1..Len(stmts)}

(***************************************************************************)
(* C16.  The two notebooks are independent.  However the cells of the two  *)
(* are interleaved (the other notebook not run, run before, run after or   *)
(* in between) each notebook is where it would be run alone: the same      *)
(* names bound, the same outcome of its last cell, the same files of its   *)
(* own.  The cell it runs next reads no file the other notebook writes and *)
(* no name only the other notebook binds, and no file is written by both.  *)
(***************************************************************************)
C16_Independent ==
    /\ Writes("NumPy") \cap Writes("PyMC") = {}
    /\ \A nb \in Notebooks :
          LET solo == Alone(nb, pc[nb])
          IN  /\ ns[nb] = solo.ns
              /\ err[nb] = solo.err
              /\ files \cap Writes(nb) = solo.files
              /\ files \ Writes(nb) = Alone(Other(nb), pc[Other(nb)]).files
              /\ pc[nb] <= Len(Cells(nb)) =>
                    /\ CellReads(Cells(nb)[pc[nb]]) \cap Writes(Other(nb)) = {}
                    /\ CellNames(Cells(nb)[pc[nb]]) \cap (Binds(Other(nb)) \ Binds(nb)) = {}
                    /\ RunStmts(nb, Cells(nb)[pc[nb]], 1, ns[nb], files).err
                          = RunStmts(nb, Cells(nb)[pc[nb]], 1, solo.ns, solo.files).err

\* The NumPy notebook has read its text file back and the PyMC notebook has
\* created its database: each has its own names and files, and not the
\* other's.
C16_Witness ==
    /\ {"test.out", "MCMC.sqlite"} \subseteq files
    /\ "arr2" \in ns["NumPy"]
    /\ "M" \in ns["PyMC"]
    /\ "arr2" \notin ns["PyMC"]
    /\ "M" \notin ns["NumPy"]
    /\ pc["NumPy"] <= Len(Cells("NumPy"))
    /\ pc["PyMC"] <= Len(Cells("PyMC"))

=============================================================================
